---- MODULE Spec2Model ----
(***************************************************************************)
(* ImpostorBot: the per-author model lifecycle.                            *)
(*                                                                         *)
(*   predictText (src/src/rnn/DiscordTextGenerator.ts) resolves a model    *)
(*   for a (guild_id, user_id) key - a stored artifact row, or a retrain   *)
(*   from the stored messages - and generates a text with it.              *)
(*   RnnTextPredictor (src/src/rnn/RnnTextPredictor.ts, the class of       *)
(*   lines 156-396) is the model object it drives.                         *)
(*                                                                         *)
(* One guild is modelled.  A message's creation time and its snowflake id  *)
(* are order-isomorphic, so one integer stands for both; ids are relative  *)
(* to the first stored message (a backfilled message has a smaller id).    *)
(* An absent value (null / undefined) is the empty sequence <<>>, a        *)
(* present one the one-element sequence <<v>>.                             *)
(***************************************************************************)
EXTENDS Integers, Sequences, FiniteSets, TLC

VARIABLES
    messages,   \* table messages: batches of rows [user, lo, hi, content], each
                \* tagged with the value of the models serial when it was stored
    models,     \* table models: rows [id, last_message_id, user_id, update_time, tokenized_data]
    nextId,     \* the serial behind models.id
    clock,      \* newest message id handed out so far; also the current time
    floor,      \* oldest message id handed out so far
    req,        \* req[p]: the predictText call running in slot p
    inst,       \* a free-standing RnnTextPredictor instance
    last,       \* the last call on inst: [op, ok], the artifact last exported from
                \* it, and whether dispose() has released a model of it
    calc,       \* the last call of a text function: [fn, arg, out]
    channel,    \* the history of the text channel, oldest first: runs of
                \* messages [author, n] with consecutive ids from 1
    imp,        \* the run of the import command: its locals and its position
    cmd         \* the run of the impersonate command: its options, its position,
                \* what predictText returned to it and the Discord calls it made

vars == <<messages, models, nextId, clock, floor, req, inst, last, calc, channel, imp,
          cmd>>

(*************************** bounds and inputs *****************************)

MaxBatches == 3

MaxConcBatches == 2

Procs == {1, 2}

Users == {"u1"}

Null == <<>>

Some(v) == <<v>>

\* the batches the import may store: <<number of messages, content>>
BatchShapes ==
    { <<1000, <<"h", "i">> >>, <<1001, <<"h", "i">> >>, <<4000, <<"h", "i">> >>,
      <<6000, <<"h", "i">> >>, <<1, <<>> >>, <<1, <<"!", "g", "o">> >> }

\* the batches of messages older than every stored one
OldShapes == { <<6000, <<"h", "i">> >>, <<1, <<"!", "a">> >> }

\* the batches stored while two calls overlap
ConcShapes == { <<6000, <<"h", "i">> >>, <<1, <<>> >> }

\* no user: predictText(undefined), and user_id NULL in a row
NoUser == ""

StaleThreshold == 5000

maxMessages == 512

maxWordCount == 20

sequenceLength == 100

(***************************** the tables **********************************)

\* where: user_id: userId || {[Op.ne]: null}
MatchUser(userId, rowUser) ==
    IF userId = NoUser THEN rowUser # NoUser ELSE rowUser = userId

Max(a, b) == IF a >= b THEN a ELSE b

\* messages of batch b with time > t
NewerIn(b, t) == IF b.hi <= t THEN 0 ELSE b.hi - Max(b.lo, t + 1) + 1

BatchSize(b) == b.hi - b.lo + 1

RECURSIVE CountIn(_, _)
CountIn(B, t) ==
    IF B = {} THEN 0
    ELSE LET b == CHOOSE x \in B : TRUE
         IN  NewerIn(b, t) + CountIn(B \ {b}, t)

RECURSIVE TotalIn(_)
TotalIn(B) ==
    IF B = {} THEN 0
    ELSE LET b == CHOOSE x \in B : TRUE
         IN  BatchSize(b) + TotalIn(B \ {b})

RECURSIVE CharsIn(_)
CharsIn(B) ==
    IF B = {} THEN 0
    ELSE LET b == CHOOSE x \in B : TRUE
         IN  BatchSize(b) * Len(b.content) + CharsIn(B \ {b})

KeyMessages(userId) == { b \in messages : MatchUser(userId, b.user) }

KeyModels(userId) == { m \in models : MatchUser(userId, m.user_id) }

\* DbModels.findOne({where: key, order: [['id', 'DESC']]})
FindCurrentModel(userId) ==
    LET rows == KeyModels(userId)
    IN  IF rows = {} THEN Null
        ELSE Some(CHOOSE m \in rows : \A o \in rows : o.id <= m.id)

\* DbMessages.findOne({where: key, order: [['time', 'DESC']]}) -> message_id
FindLastKnownMessage(userId) ==
    LET rows == KeyMessages(userId)
    IN  IF rows = {} THEN Null
        ELSE Some((CHOOSE b \in rows : \A o \in rows : o.hi <= b.hi).hi)

\* DbMessages.count({where: key and time > update_time})
CountNewerMessages(userId, update_time) == CountIn(KeyMessages(userId), update_time)

\* (mutant) a count equal to the threshold already counts as outdated
IsOutdatedAtThreshold(dbModel, lastKnownMessageId, count) ==
    /\ dbModel # Null
    /\ dbModel[1].last_message_id # lastKnownMessageId
    /\ count >= StaleThreshold

\* the decision of lines 140-159, given the count the query would return
IsOutdated(dbModel, lastKnownMessageId, count) ==
    /\ dbModel # Null
    /\ dbModel[1].last_message_id # lastKnownMessageId
    /\ count > StaleThreshold

commandPrefixes == {"!", "?", "-", "+", "@", "#", "$", "%", "&"}

StartsWith(x, prefix) == Len(x) >= 1 /\ x[1] = prefix

\* (mutant) the command filter is missing
KeepAnyContent(x) == x # <<>>

\* (mutant) every content that starts with a prefix symbol is dropped
KeepUnprefixed(x) ==
    /\ x # <<>>
    /\ ~ \E prefix \in commandPrefixes : StartsWith(x, prefix)

\* the two filters of lines 186-192 on one content
KeepContent(x) ==
    /\ x # <<>>
    /\ ~ \E prefix \in commandPrefixes : StartsWith(x, prefix) /\ Len(x) > 2

\* DbMessages.findAll({where: key and content != ''}) followed by the filters
FetchCorpus(userId) ==
    { b \in KeyMessages(userId) : b.content # <<>> /\ KeepContent(b.content) }

\* msg.split(' ').length (no modelled content has two spaces in a row, so the
\* replace of line 169 changes nothing)
WordsOf(content) == 1 + Cardinality({ i \in 1..Len(content) : content[i] = " " })

\* train(), line 170: the messages of at most maxWordCount words
WithinWordCount(corpus) == { b \in corpus : WordsOf(b.content) <= maxWordCount }

\* length of the text train() builds: the messages within the word count, at
\* most maxMessages of them, joined by ' \n'.
\* Of more than maxMessages messages the first maxMessages the query returned
\* are joined, each of at least one character: the text is at least this long.
TextLength(corpus) ==
    LET n == TotalIn(WithinWordCount(corpus))
    IN  IF n = 0 THEN 0
        ELSE IF n <= maxMessages THEN CharsIn(WithinWordCount(corpus)) + 2 * (n - 1)
        ELSE maxMessages + 2 * (maxMessages - 1)

(************************** RnnTextPredictor *******************************)
(* An instance is [model, tokenizedData].  A tf.LayersModel is modelled by *)
(* what the class reads of it: `built`, and the reference count that       *)
(* LayersModel.dispose() decrements (a model at count 0 has released its   *)
(* weights; disposing it again, or running it, throws).  An operation      *)
(* yields the set of its possible outcomes [rnn, ok, out]: ok = FALSE is a *)
(* thrown error, out the returned value.                                   *)
(***************************************************************************)

NewRnn == [model |-> Null, tokenizedData |-> Null]

BuiltModel == [built |-> TRUE, refCount |-> 1]

Outcome(r, ok, out) == [rnn |-> r, ok |-> ok, out |-> out]

Usable(r) ==
    /\ r.model # Null /\ r.tokenizedData # Null
    /\ r.model[1].built /\ r.model[1].refCount > 0

RECURSIVE CharsOf(_)
CharsOf(B) ==
    IF B = {} THEN {}
    ELSE LET b == CHOOSE x \in B : TRUE
         IN  { b.content[i] : i \in 1..Len(b.content) } \cup CharsOf(B \ {b})

\* buildVocabulary(text): the set of characters of the joined text
BuildVocabulary(corpus) ==
    LET kept == WithinWordCount(corpus)
    IN  [vocabulary |-> [isSet |-> TRUE,
                         elems |-> CharsOf(kept) \cup
                                   (IF TotalIn(kept) > 1 THEN {" ", "\n"} ELSE {})]]

\* (mutant) train() makes a model of whatever text it is given
TrainAnything(r, corpus) ==
    { Outcome([model |-> Some(BuiltModel),
               tokenizedData |-> Some(BuildVocabulary(corpus))], TRUE, Null) }

\* train(messages): the vocabulary is built first; a text of at most
\* sequenceLength characters gives no input sequence and inputSequences[0].length
\* throws; model.fit may throw in the backend; this.model is assigned after fit
RnnTrain(r, corpus) ==
    LET r1 == [r EXCEPT !.tokenizedData = Some(BuildVocabulary(corpus))]
    IN  IF TextLength(corpus) <= sequenceLength
        THEN { Outcome(r1, FALSE, Null) }
        ELSE { Outcome([r1 EXCEPT !.model = Some(BuiltModel)], TRUE, Null),
               Outcome(r1, FALSE, Null) }

\* (mutant) export() only asks for the tokenized data
ExportWithoutModel(r) ==
    IF r.tokenizedData = Null THEN { Outcome(r, FALSE, Null) }
    ELSE { Outcome(r, TRUE, Some([tokenizedData |-> r.tokenizedData[1]])) }

\* export(): throws unless a built model and tokenized data exist; model.save
\* reads the weights, which throws once they are released
RnnExport(r) ==
    IF r.model = Null \/ r.tokenizedData = Null THEN { Outcome(r, FALSE, Null) }
    ELSE IF ~ r.model[1].built THEN { Outcome(r, FALSE, Null) }
    ELSE IF r.model[1].refCount = 0 THEN { Outcome(r, FALSE, Null) }
    ELSE { Outcome(r, TRUE, Some([tokenizedData |-> r.tokenizedData[1]])) }

\* import(model): a freshly loaded model replaces this.model
RnnImport(r, exported) ==
    { Outcome([model |-> Some(BuiltModel),
               tokenizedData |-> Some(exported.tokenizedData)], TRUE, Null) }

\* dispose(): model.dispose() is called whenever the model is built
RnnDispose(r) ==
    IF r.model # Null /\ r.model[1].built
    THEN IF r.model[1].refCount = 0
         THEN { Outcome(r, FALSE, Null) }
         ELSE { Outcome([r EXCEPT !.model = Some([@[1] EXCEPT !.refCount = @ - 1])],
                        TRUE, Null) }
    ELSE { Outcome(r, TRUE, Null) }

\* predictRemainder(inputText, numChars): numChars - inputText.length steps of
\* model.predict; with numChars undefined the loop body never runs
RnnPredictRemainder(r, steps) ==
    IF r.model = Null \/ r.tokenizedData = Null THEN { Outcome(r, FALSE, Null) }
    ELSE IF steps > 0 /\ r.model[1].refCount = 0 THEN { Outcome(r, FALSE, Null) }
    ELSE { Outcome(r, TRUE, Some("text")), Outcome(r, FALSE, Null) }

\* generateRandom(length = 2000): predictRemainder('', length)
RnnGenerateRandom(r) ==
    IF r.model = Null \/ r.tokenizedData = Null THEN { Outcome(r, FALSE, Null) }
    ELSE RnnPredictRemainder(r, 2000 - 1)

\* JSON.stringify / JSON.parse of the tokenized data: a Set serialises as {}
JsonStringify(td) == [td EXCEPT !.vocabulary = [isSet |-> FALSE, elems |-> {}]]

JsonParse(text) == text

(***************************** predictText *********************************)
(* One action per stretch of predictText between two awaits that touch     *)
(* shared state.  A request record holds the locals of the call; `ops`,    *)
(* what the call has done so far, `rows`, how many rows its key had when   *)
(* it looked the model up, and `seen`, how many messages its key had when  *)
(* it began, are kept for the properties.                                  *)
(***************************************************************************)

Queries == { Null, Some(<<>>), Some(<<"h", "i">>) }

\* lines 100-103: an empty query is no input
InputOf(query) == IF query # Null /\ Len(query[1]) > 0 THEN query ELSE Null

Idle ==
    [pc |-> "idle", userId |-> NoUser, input |-> Null, dbModel |-> Null,
     oldModel |-> Null, lastKnownMessageId |-> 0, rnn |-> Null, corpus |-> {},
     exported |-> Null, created |-> Null, rows |-> 0, seen |-> 0, ops |-> {},
     result |-> "none"]

Set(p, r) == req' = [req EXCEPT ![p] = r]

\* the call returns or throws: its locals go out of scope; what stays is what the
\* properties read of a finished call (whose call, its instance, what it did)
Return(r, result) ==
    [Idle EXCEPT !.pc = "done", !.userId = r.userId, !.rnn = r.rnn, !.ops = r.ops,
                 !.result = result]

\* (mutant) the loaded row is never used
AlwaysRetrain(r) == [r EXCEPT !.rnn = Some(NewRnn), !.pc = "fetch"]

\* lines 161-175: after the staleness decision a fresh instance is created and
\* the call imports the loaded row or goes on to retrain
AfterStaleCheck(r) ==
    [r EXCEPT !.rnn = Some(NewRnn),
              !.pc = IF r.dbModel # Null THEN "import" ELSE "fetch"]

\* (mutant) the old row is destroyed before the new one is created
DestroyFirst(at, oldModel) ==
    CASE at = "export"  -> IF oldModel # Null THEN "destroy" ELSE "create"
      [] at = "destroy" -> "create"
      [] at = "create"  -> "predict"

\* lines 234-255: export, then create, then destroy of the old row if there is
\* one, then generation: the step that follows step `at`
ReplaceOrder(at, oldModel) ==
    CASE at = "export"  -> "create"
      [] at = "create"  -> IF oldModel # Null THEN "destroy" ELSE "predict"
      [] at = "destroy" -> "predict"

Start(p, u, q) ==
    /\ req[p].pc \in {"idle", "done"}
    /\ Set(p, [Idle EXCEPT !.pc = "findModel", !.userId = u, !.input = InputOf(q),
                           !.seen = TotalIn(KeyMessages(u))])
    /\ UNCHANGED <<messages, models, nextId, clock, floor, inst, last, calc, channel, imp, cmd>>

\* lines 105-111
FindModel(p) ==
    /\ req[p].pc = "findModel"
    /\ Set(p, [req[p] EXCEPT !.dbModel = FindCurrentModel(req[p].userId),
                             !.rows = Cardinality(KeyModels(req[p].userId)),
                             !.pc = "findLastKnown"])
    /\ UNCHANGED <<messages, models, nextId, clock, floor, inst, last, calc, channel, imp, cmd>>

\* lines 113-143 (and 161-175 when no count is needed)
FindLastKnown(p) ==
    /\ req[p].pc = "findLastKnown"
    /\ LET r  == req[p]
           lk == FindLastKnownMessage(r.userId)
       IN  IF lk = Null THEN Set(p, Return(r, "null"))
           ELSE LET r1 == [r EXCEPT !.lastKnownMessageId = lk[1]]
                IN  IF r.dbModel # Null /\ r.dbModel[1].last_message_id # lk[1]
                    THEN Set(p, [r1 EXCEPT !.pc = "count"])
                    ELSE Set(p, AfterStaleCheck(r1))
    /\ UNCHANGED <<messages, models, nextId, clock, floor, inst, last, calc, channel, imp, cmd>>

\* lines 144-159 (and 161-175)
CountNewer(p) ==
    /\ req[p].pc = "count"
    /\ LET r     == req[p]
           count == CountNewerMessages(r.userId, r.dbModel[1].update_time)
       IN  IF IsOutdated(r.dbModel, r.lastKnownMessageId, count)
           THEN Set(p, AfterStaleCheck([r EXCEPT !.oldModel = r.dbModel, !.dbModel = Null]))
           ELSE Set(p, AfterStaleCheck(r))
    /\ UNCHANGED <<messages, models, nextId, clock, floor, inst, last, calc, channel, imp, cmd>>

\* lines 162-174
Import(p) ==
    /\ req[p].pc = "import"
    /\ LET r     == req[p]
           model == [tokenizedData |-> JsonParse(r.dbModel[1].tokenized_data)]
       IN  \E o \in RnnImport(r.rnn[1], model) :
               Set(p, [r EXCEPT !.rnn = Some(o.rnn), !.ops = @ \cup {"import"},
                                !.pc = "predict"])
    /\ UNCHANGED <<messages, models, nextId, clock, floor, inst, last, calc, channel, imp, cmd>>

\* lines 176-217
Fetch(p) ==
    /\ req[p].pc = "fetch"
    /\ LET r        == req[p]
           entries  == FetchCorpus(r.userId)
       IN  IF TotalIn(entries) = 0
           THEN Set(p, Return([r EXCEPT !.ops = @ \cup {"fetch"}], "null"))
           ELSE Set(p, [r EXCEPT !.corpus = entries, !.ops = @ \cup {"fetch"},
                                 !.pc = "train"])
    /\ UNCHANGED <<messages, models, nextId, clock, floor, inst, last, calc, channel, imp, cmd>>

\* lines 219-230
Train(p) ==
    /\ req[p].pc = "train"
    /\ LET r == req[p]
       IN  \E o \in RnnTrain(r.rnn[1], r.corpus) :
               LET r1 == [r EXCEPT !.rnn = Some(o.rnn), !.ops = @ \cup {"train"}]
               IN  IF o.ok THEN Set(p, [r1 EXCEPT !.pc = "export"])
                   ELSE Set(p, Return(r1, "error"))
    /\ UNCHANGED <<messages, models, nextId, clock, floor, inst, last, calc, channel, imp, cmd>>

\* lines 234-235
Export(p) ==
    /\ req[p].pc = "export"
    /\ LET r == req[p]
       IN  \E o \in RnnExport(r.rnn[1]) :
               LET r1 == [r EXCEPT !.ops = @ \cup {"export"}]
               IN  IF o.ok THEN Set(p, [r1 EXCEPT !.exported = o.out,
                                                !.pc = ReplaceOrder("export", r.oldModel)])
                   ELSE Set(p, Return(r1, "error"))
    /\ UNCHANGED <<messages, models, nextId, clock, floor, inst, last, calc, channel, imp, cmd>>

\* the row of lines 237-245.  The INSERT names no id and no update_time: id is
\* the serial, and update_time, declared NOT NULL, is whatever the database
\* fills in at insertion, its current time.
NewModelRow(r) ==
    [id              |-> nextId,
     last_message_id |-> r.lastKnownMessageId,
     user_id         |-> r.userId,
     update_time     |-> clock,
     tokenized_data  |-> JsonStringify(r.exported[1].tokenizedData)]

\* create table models: last_message_id is the primary key, user_id is NOT NULL
InsertAccepted(row) ==
    /\ row.user_id # NoUser
    /\ \A m \in models : m.last_message_id # row.last_message_id

\* lines 237-245: the insert is accepted, or it throws (a constraint, or the
\* database being unavailable)
Create(p) ==
    /\ req[p].pc = "create"
    /\ LET r   == req[p]
           row == NewModelRow(r)
       IN  \/ /\ InsertAccepted(row)
              /\ models' = models \cup {row}
              /\ nextId' = nextId + 1
              /\ Set(p, [r EXCEPT !.created = Some(row), !.ops = @ \cup {"create"},
                                  !.pc = ReplaceOrder("create", r.oldModel)])
           \/ /\ UNCHANGED <<models, nextId>>
              /\ Set(p, Return(r, "error"))
    /\ UNCHANGED <<messages, clock, floor, inst, last, calc, channel, imp, cmd>>

\* (mutant) the delete takes every row of the key
DestroyByKey(row) == { m \in models : m.user_id # row.user_id }

\* oldModel.destroy(): DELETE FROM models WHERE id = oldModel.id
DestroyRow(row) == { m \in models : m.id # row.id }

\* lines 247-249: the delete is done, or it throws
Destroy(p) ==
    /\ req[p].pc = "destroy"
    /\ LET r == req[p]
       IN  \/ /\ models' = (IF r.oldModel # Null THEN DestroyRow(r.oldModel[1]) ELSE models)
              /\ Set(p, [r EXCEPT !.ops = @ \cup {"destroy"},
                                  !.pc = ReplaceOrder("destroy", r.oldModel)])
           \/ /\ UNCHANGED models
              /\ Set(p, Return(r, "error"))
    /\ UNCHANGED <<messages, nextId, clock, floor, inst, last, calc, channel, imp, cmd>>

\* lines 257-261
Predict(p) ==
    /\ req[p].pc = "predict"
    /\ LET r == req[p]
       IN  \E o \in (IF r.input # Null THEN RnnPredictRemainder(r.rnn[1], 0)
                                       ELSE RnnGenerateRandom(r.rnn[1])) :
               Set(p, Return([r EXCEPT !.rnn = Some(o.rnn)],
                             IF o.ok THEN "text" ELSE "error"))
    /\ UNCHANGED <<messages, models, nextId, clock, floor, inst, last, calc, channel, imp, cmd>>

\* the process stops at any point: every call in flight is lost, the tables stay
Crash ==
    /\ \E p \in Procs : req[p].pc \notin {"idle", "done"}
    /\ req' = [p \in Procs |-> Idle]
    /\ UNCHANGED <<messages, models, nextId, clock, floor, inst, last, calc, channel, imp, cmd>>

(************************* the messages table ******************************)

\* bulkCreate of the import command: shape[1] messages of one author, newer than
\* every stored message
IngestNew(u, shape, max) ==
    /\ Cardinality(messages) < max
    /\ messages' = messages \cup
           {[user |-> u, lo |-> clock + 1, hi |-> clock + shape[1], content |-> shape[2],
             epoch |-> nextId]}
    /\ clock' = clock + shape[1]
    /\ UNCHANGED <<floor, models, nextId, req, inst, last, calc, channel, imp, cmd>>

\* the same for a stretch of history older than every stored message (the import
\* walks a channel backwards, and time is the message's createdAt)
IngestOld(u, shape, max) ==
    /\ Cardinality(messages) < max
    /\ messages' = messages \cup
           {[user |-> u, lo |-> floor - shape[1], hi |-> floor - 1, content |-> shape[2],
             epoch |-> nextId]}
    /\ floor' = floor - shape[1]
    /\ UNCHANGED <<clock, models, nextId, req, inst, last, calc, channel, imp, cmd>>

(******************** a free-standing RnnTextPredictor ********************)

\* a message of maxWordCount + 1 one-letter words
LongMessage == [i \in 1..(2 * maxWordCount + 1) |-> IF i % 2 = 1 THEN "a" ELSE " "]

Batch(n, content) == [user |-> "u1", lo |-> 1, hi |-> n, content |-> content, epoch |-> 1]

\* the message lists handed to train()
RnnCorpora ==
    { {}, {Batch(1, <<"h", "i">>)}, {Batch(1001, <<"h", "i">>)},
      {Batch(4000, <<"h", "o">>), Batch(1, <<"!", "a">>)},
      {Batch(60, LongMessage)} }

NoCall == [op |-> "none", arg |-> Null, ok |-> TRUE, artifact |-> Null, disposed |-> FALSE]

NoCalc == [fn |-> "none", arg |-> Null, out |-> Null]

Released(r) == r.model # Null /\ r.model[1].refCount = 0

CalledWith(op, arg, o) ==
    /\ inst' = o.rnn
    /\ last' = [op |-> op, arg |-> arg, ok |-> o.ok,
                artifact |-> IF op = "export" /\ o.ok THEN o.out ELSE last.artifact,
                disposed |-> last.disposed \/ (op = "dispose" /\ Released(o.rnn))]
    /\ UNCHANGED <<messages, models, nextId, clock, floor, req, calc, channel, imp, cmd>>

Called(op, o) == CalledWith(op, Null, o)

InstNew ==
    /\ inst' = NewRnn
    /\ last' = [NoCall EXCEPT !.artifact = last.artifact]
    /\ UNCHANGED <<messages, models, nextId, clock, floor, req, calc, channel, imp, cmd>>

InstTrain(corpus) ==
    \E o \in RnnTrain(inst, corpus) : CalledWith("train", Some(corpus), o)

InstExport == \E o \in RnnExport(inst) : Called("export", o)

\* the artifact as exported, or as predictText stores and reloads it
InstImport(viaJson) ==
    /\ last.artifact # Null
    /\ LET a == last.artifact[1]
           m == IF viaJson
                THEN [tokenizedData |-> JsonParse(JsonStringify(a.tokenizedData))]
                ELSE a
       IN  \E o \in RnnImport(inst, m) :
               Called(IF viaJson THEN "importStored" ELSE "import", o)

InstDispose == \E o \in RnnDispose(inst) : Called("dispose", o)

InstPredictRemainder(steps) ==
    \E o \in RnnPredictRemainder(inst, steps) : Called("predictRemainder", o)

InstGenerateRandom == \E o \in RnnGenerateRandom(inst) : Called("generateRandom", o)

NextRnn ==
    \/ InstNew
    \/ \E corpus \in RnnCorpora : InstTrain(corpus)
    \/ InstExport
    \/ \E viaJson \in BOOLEAN : InstImport(viaJson)
    \/ InstDispose
    \/ \E steps \in {0, 3} : InstPredictRemainder(steps)
    \/ InstGenerateRandom

\* no import has run
NoImport ==
    [pc |-> "idle", userId |-> NoUser, latestMessageId |-> Null, count |-> 0,
     fetched |-> {}]

\* no impersonate command has run
NoCommand ==
    [pc |-> "idle", options |-> Null, query |-> Null, result |-> "none", calls |-> {}]

Init ==
    /\ messages = {}
    /\ models = {}
    /\ nextId = 1
    /\ clock = 0
    /\ floor = 1
    /\ req = [p \in Procs |-> Idle]
    /\ inst = NewRnn
    /\ last = NoCall
    /\ calc = NoCalc
    /\ channel = <<>>
    /\ imp = NoImport
    /\ cmd = NoCommand

Step(p) ==
    \/ FindModel(p)
    \/ FindLastKnown(p)
    \/ CountNewer(p)
    \/ Import(p)
    \/ Fetch(p)
    \/ Train(p)
    \/ Export(p)
    \/ Create(p)
    \/ Destroy(p)
    \/ Predict(p)

\* calls overlap freely
Next ==
    \/ \E p \in Procs, u \in Users, q \in Queries : Start(p, u, q)
    \/ \E p \in Procs : Step(p)
    \/ Crash
    \/ \E u \in Users, shape \in ConcShapes : IngestNew(u, shape, MaxConcBatches)

Spec == Init /\ [][Next]_vars

\* one call at a time
NextSeq ==
    \/ \E u \in Users, q \in Queries : Start(1, u, q)
    \/ Step(1)
    \/ Crash
    \/ \E u \in Users, shape \in BatchShapes : IngestNew(u, shape, MaxBatches)
    \/ \E u \in Users, shape \in OldShapes : IngestOld(u, shape, MaxBatches)

SpecSeq == Init /\ [][NextSeq]_vars

SpecRnn == Init /\ [][NextRnn]_vars

\* one call at a time in a guild of two authors; a call names an author or, with
\* userId undefined, none
MaxGuildBatches == 2

GuildUsers == {"u1", "u2"}

NextGuild ==
    \/ \E u \in GuildUsers \cup {NoUser} : Start(1, u, Null)
    \/ Step(1)
    \/ \E u \in GuildUsers, shape \in ConcShapes : IngestNew(u, shape, MaxGuildBatches)

SpecGuild == Init /\ [][NextGuild]_vars

(************************** the text functions *****************************)
(* The word-level revisions of RnnTextPredictor (src/unnamed/part_001,     *)
(* part_002, part_003) and the pure parts of the character-level one.  A   *)
(* text is the list of words text.split(' ') gives; the words are not      *)
(* integer-like and are no property names of Object.prototype.  Tables     *)
(* (wordToIndex, indexToWord) are functions; a thrown error is Null.       *)
(***************************************************************************)

MaxWords == 4

MaxCap == 3

MaxContext == 3

MaxLength == 3

MaxContent == 3

Tokens == {"a", "b", "c"}

WordLists == UNION { [1..n -> Tokens] : n \in 1..MaxWords }

Caps == 1..MaxCap

Min(a, b) == IF a <= b THEN a ELSE b

Distinct(words) == { words[i] : i \in 1..Len(words) }

\* wordCount.get(word) / wordCounts[word]
WordCount(words, w) == Cardinality({ i \in 1..Len(words) : words[i] = w })

FirstSeen(words, w) == CHOOSE i \in 1..Len(words) :
                           words[i] = w /\ \A j \in 1..(i - 1) : words[j] # w

\* .sort((a, b) => count[b] - count[a]) of the entries in insertion order: the
\* sort is stable, so equal counts stay in order of first occurrence
SortsBefore(words, v, w) ==
    \/ WordCount(words, v) > WordCount(words, w)
    \/ WordCount(words, v) = WordCount(words, w) /\ FirstSeen(words, v) < FirstSeen(words, w)

SortedWords(words) ==
    LET D == Distinct(words)
    IN  [i \in 1..Cardinality(D) |->
            CHOOSE w \in D : Cardinality({ v \in D : SortsBefore(words, v, w) }) = i - 1]

\* the tables assigned for the ranked words kept: word i (from 0) gets index i
Tables(kept) ==
    [vocabulary  |-> kept,
     wordToIndex |-> [w \in { kept[i] : i \in 1..Len(kept) } |->
                         (CHOOSE i \in 1..Len(kept) : kept[i] = w) - 1],
     indexToWord |-> [i \in 0..(Len(kept) - 1) |-> kept[i + 1]]]

\* part_001 buildVocabulary(text, maxVocabSize): the loop runs maxVocabSize
\* times and reads sortedWordCount[i][0]; past the last entry that throws
BuildWordVocabulary(words, maxVocabSize) ==
    LET sortedWordCount == SortedWords(words)
    IN  IF maxVocabSize > Len(sortedWordCount) THEN Null
        ELSE Some(Tables(SubSeq(sortedWordCount, 1, maxVocabSize)))

\* part_002 train, lines 276-298: sortedWords.slice(0, maxVocubularySize)
TrainVocabulary(words, maxVocubularySize) ==
    LET sortedWords == SortedWords(words)
    IN  Some(Tables(SubSeq(sortedWords, 1, Min(maxVocubularySize, Len(sortedWords)))))

\* the prediction of a model whose last layer is dense({units: vocabulary.size})
\* behind an LSTM with returnSequences: one row of vocabulary.size
\* probabilities for each of the `context` positions fed in
PredictionShape(context, size) == [rows |-> context, units |-> size]

\* RnnTextPredictor.ts sampleFromPrediction(tf.squeeze(prediction), temperature):
\* multinomial draws one class per row; dataSync()[0] is the draw of the first
\* row.  The temperature scales the logits and moves no class in or out.
SampleFromPrediction(prediction) == 0..(prediction.units - 1)

\* part_001 predictRemainder, lines 135-137: the whole output is flattened to
\* one row of rows * units values and one class is drawn from it
SampleFlattened(prediction) == 0..(prediction.rows * prediction.units - 1)

\* a seed text: no word, or some words separated by single spaces
Seeds == {<<>>} \cup WordLists

\* the word a decoding step appends (which word is drawn does not matter to
\* the lengths; it is no word of a seed)
Sampled == "w"

\* part_001 lines 119-123: a non-empty seed gets a trailing space, and
\* inputText.split(' ') then ends with an empty word; ''.split(' ') is ['']
SplitSeed(seed) == seed \o <<"">>

\* part_001 lines 134-153: the loop runs while prediction.split(' ').length,
\* one more than the number of words appended to prediction, is below
\* predictLengthMax; each turn drops the first word of the window and appends
\* the sampled one.  predictLengthMin only initialises a counter nothing reads.
RECURSIVE DecodeLoop(_, _, _)
DecodeLoop(words, generated, predictLengthMax) ==
    IF generated + 1 < predictLengthMax
    THEN DecodeLoop(Tail(words) \o <<Sampled>>, generated + 1, predictLengthMax)
    ELSE [words |-> words, generated |-> generated]

\* part_001 predictRemainder(inputText, predictLengthMin, predictLengthMax):
\* returns words.join(' '), the window, not the prediction
WordPredictRemainder(seed, predictLengthMin, predictLengthMax) ==
    DecodeLoop(SplitSeed(seed), 0, predictLengthMax)

\* part_001 generateRandom(minLength, maxLength)
WordGenerateRandom(minLength, maxLength) ==
    WordPredictRemainder(<<>>, minLength, maxLength)

\* the pad word of part_002, the character NUL
PadWord == "NUL"

Repeat(word, n) == [i \in 1..n |-> word]

\* part_002 pad(str), lines 470-483 (and 228-238, with maxWordCount for
\* padSize): length is tokenizedData.padSize
Pad(str, length) ==
    IF Len(str) >= length THEN SubSeq(str, 1, length)
    ELSE str \o Repeat(PadWord, length - Len(str))

\* part_003 pad, lines 184-186: the length is the largest number of words in a
\* vocabulary entry; an entry is one word of a split text and has no space
VocabularyPadLength(vocabulary) == 1

\* part_003 pad(str), lines 181-193: empty words are pushed while str is
\* shorter than the length; str is returned as it is otherwise
PadByVocabulary(str, vocabulary) ==
    LET length == VocabularyPadLength(vocabulary)
    IN  IF Len(str) < length THEN str \o Repeat("", length - Len(str)) ELSE str

\* the samples a vocabulary is built from in the calls below
Samples == { words \in WordLists : Len(words) <= 2 }

\* part_002 train, lines 300-307: the tokenized data with its padSize
TokenizedData(words, padSize) ==
    LET t == TrainVocabulary(words, MaxCap)[1]
    IN  [vocabulary |-> t.vocabulary, wordToIndex |-> t.wordToIndex,
         indexToWord |-> t.indexToWord, padSize |-> padSize]

\* part_002 strToXs, lines 441-449, for one word: a row of vocabulary.length
\* zeros, with a 1 at the word's index unless that index is missing or 0; the
\* row is given by the set of its positions that hold a 1
OneHotRow(td, word) ==
    LET wordIndex == IF word \in DOMAIN td.wordToIndex THEN td.wordToIndex[word] ELSE 0
    IN  IF wordIndex = 0 THEN {} ELSE {wordIndex}

\* part_002 strToXs(str), lines 433-450, on the words of str
StrToXs(words, td) ==
    LET padded == Pad(words, td.padSize)
    IN  [i \in 1..Len(padded) |-> OneHotRow(td, padded[i])]

\* (mutant) strToYs encodes the words from the first one on
StrToYsUnshifted(words, td) ==
    LET padded == Pad(words, td.padSize)
    IN  [i \in 1..Len(padded) |-> OneHotRow(td, padded[i])]

\* part_002 strToYs(str), lines 452-468: the words after the first, padded and
\* encoded as in strToXs
StrToYs(words, td) ==
    LET padded == Pad(SubSeq(words, 2, Len(words)), td.padSize)
    IN  [i \in 1..Len(padded) |-> OneHotRow(td, padded[i])]

\* part_003 strToXs, lines 163-166, for one word: the 1 is written at the
\* word's index, and at index 0 when the word has none
OneHotRowOrZero(td, word) ==
    LET wordIndex == IF word \in DOMAIN td.wordToIndex THEN td.wordToIndex[word] ELSE 0
    IN  {wordIndex}

\* part_003 strToXs(str), lines 159-168, on the words of str
StrToXsByVocabulary(words, td) ==
    LET padded == PadByVocabulary(words, td.vocabulary)
    IN  [i \in 1..Len(padded) |-> OneHotRowOrZero(td, padded[i])]

\* texts of the character-level class: up to MaxChars characters
MaxChars == 3

CharTexts == UNION { [1..n -> {"a", "b"}] : n \in 0..MaxChars }

\* RnnTextPredictor.ts buildVocabulary(text), lines 286-299: every position i of
\* the text adds its character to the set and overwrites charToIndex[char] with
\* i, so a character keeps the position of its last occurrence
BuildVocabularyOf(text) ==
    LET chars == { text[i] : i \in 1..Len(text) }
    IN  [vocabulary  |-> chars,
         charToIndex |-> [c \in chars |->
                             (CHOOSE i \in 1..Len(text) :
                                 /\ text[i] = c
                                 /\ \A j \in (i + 1)..Len(text) : text[j] # c) - 1],
         indexToChar |-> [i \in 0..(Len(text) - 1) |-> text[i + 1]]]

\* preprocessInput(input), lines 322-326: charToIndex of every character, Null
\* (undefined) for a character without an entry
PreprocessInput(td, input) ==
    [i \in 1..Len(input) |->
        IF input[i] \in DOMAIN td.charToIndex THEN Some(td.charToIndex[input[i]])
        ELSE Null]

\* oneHotEncode, lines 332-336, for one index: Array(vocabulary.size).fill(0)
\* and oneHot[index] = 1; an index past the end makes the array longer (the
\* slots in between are empty), an undefined one adds a property and no element
OneHotEncodeRow(td, index) ==
    LET size == Cardinality(td.vocabulary)
    IN  IF index = Null THEN [i \in 1..size |-> 0]
        ELSE [i \in 1..Max(size, index[1] + 1) |-> IF i = index[1] + 1 THEN 1 ELSE 0]

\* oneHotEncode(sequences) for one sequence
OneHotEncode(td, sequence) ==
    [i \in 1..Len(sequence) |-> OneHotEncodeRow(td, sequence[i])]

\* message contents: up to MaxContent characters, prefix symbols and a letter
Contents == UNION { [1..n -> commandPrefixes \cup {"a"}] : n \in 0..MaxContent }

\* DiscordTextGenerator.ts lines 176-192 for one stored content: the query's
\* content != '' and the two filters
InCorpus(content) == content # <<>> /\ KeepContent(content)

\* no text function has been called yet: a behaviour holds one call
Fresh == calc.fn = "none"

\* the call of a text function, on an input of the bounded sets
Computed(fn, arg, out) ==
    /\ calc' = [fn |-> fn, arg |-> arg, out |-> out]
    /\ UNCHANGED <<messages, models, nextId, clock, floor, req, inst, last, channel, imp, cmd>>

CalcBuildWordVocabulary ==
    /\ Fresh
    /\ \E words \in WordLists, cap \in Caps :
        Computed("buildVocabulary", [words |-> words, cap |-> cap],
                 BuildWordVocabulary(words, cap))

CalcTrainVocabulary ==
    /\ Fresh
    /\ \E words \in WordLists, cap \in Caps :
        Computed("trainVocabulary", [words |-> words, cap |-> cap],
                 TrainVocabulary(words, cap))

CalcSampleFromPrediction ==
    /\ Fresh
    /\ \E context \in 1..MaxContext, size \in Caps :
        \E index \in SampleFromPrediction(PredictionShape(context, size)) :
            Computed("sampleFromPrediction", [context |-> context, size |-> size], index)

CalcSampleFlattened ==
    /\ Fresh
    /\ \E context \in 1..MaxContext, size \in Caps :
        \E index \in SampleFlattened(PredictionShape(context, size)) :
            Computed("sampleFlattened", [context |-> context, size |-> size], index)

CalcWordPredictRemainder ==
    /\ Fresh
    /\ \E seed \in Seeds, lo \in 0..MaxLength, hi \in 0..MaxLength :
        /\ lo <= hi
        /\ Computed("wordPredictRemainder", [seed |-> seed, min |-> lo, max |-> hi],
                    WordPredictRemainder(seed, lo, hi))

CalcWordGenerateRandom ==
    /\ Fresh
    /\ \E lo \in 0..MaxLength, hi \in 0..MaxLength :
        /\ lo <= hi
        /\ Computed("wordGenerateRandom", [seed |-> <<>>, min |-> lo, max |-> hi],
                    WordGenerateRandom(lo, hi))

CalcInCorpus ==
    /\ Fresh
    /\ \E content \in Contents : Computed("inCorpus", content, InCorpus(content))

CalcPad ==
    /\ Fresh
    /\ \E str \in Seeds, padSize \in 1..MaxLength :
        Computed("pad", [str |-> str, window |-> padSize, padWord |-> PadWord],
                 Pad(str, padSize))

CalcPadByVocabulary ==
    /\ Fresh
    /\ \E str \in Seeds, words \in Samples :
        LET vocabulary == TrainVocabulary(words, MaxCap)[1].vocabulary
        IN  Computed("padByVocabulary",
                     [str |-> str, window |-> VocabularyPadLength(vocabulary),
                      padWord |-> ""],
                     PadByVocabulary(str, vocabulary))

\* part_002 predictRemainder, line 359: the context the decoding starts from
CalcStrToXs ==
    /\ Fresh
    /\ \E seed \in WordLists, words \in Samples, padSize \in 1..MaxLength :
        LET td == TokenizedData(words, padSize)
        IN  Computed("strToXs", [seed |-> seed, td |-> td], StrToXs(seed, td))

\* part_003 predictRemainder and train: strToXs of a text
CalcStrToXsByVocabulary ==
    /\ Fresh
    /\ \E seed \in WordLists, words \in Samples :
        LET td == TokenizedData(words, 0)
        IN  Computed("strToXsByVocabulary", [seed |-> seed, td |-> td],
                     StrToXsByVocabulary(seed, td))

\* train(): buildVocabulary(text), then preprocessInput and oneHotEncode of a
\* sequence (a stretch of the text in processData, the seed in predictRemainder)
CalcOneHotEncode ==
    /\ Fresh
    /\ \E text \in CharTexts, input \in CharTexts :
        LET td       == BuildVocabularyOf(text)
            sequence == PreprocessInput(td, input)
        IN  Computed("oneHotEncode", [text |-> text, input |-> input],
                     [td |-> td, sequence |-> sequence,
                      rows |-> OneHotEncode(td, sequence)])

\* part_002 train, lines 312-313: the input and the target rows of one message
CalcEncodeMessage ==
    /\ Fresh
    /\ \E str \in WordLists, words \in Samples, padSize \in 1..MaxLength :
        LET td == TokenizedData(words, padSize)
        IN  Computed("encodeMessage", [str |-> str, td |-> td],
                     [xs |-> StrToXs(str, td), ys |-> StrToYs(str, td)])

NextText ==
    \/ CalcBuildWordVocabulary
    \/ CalcTrainVocabulary
    \/ CalcSampleFromPrediction
    \/ CalcSampleFlattened
    \/ CalcWordPredictRemainder
    \/ CalcWordGenerateRandom
    \/ CalcInCorpus
    \/ CalcPad
    \/ CalcPadByVocabulary
    \/ CalcStrToXs
    \/ CalcStrToXsByVocabulary
    \/ CalcOneHotEncode
    \/ CalcEncodeMessage

SpecText == Init /\ [][NextText]_vars

(************************** the import command *****************************)
(* Import.ts run(), for one text channel.  Message ids grow with time; the *)
(* channel history is a sequence of runs of messages of one author.  A     *)
(* collection of fetched messages is the set of its stretches [user, lo,   *)
(* hi] of consecutive ids of one author.  The history does not grow while  *)
(* an import runs.                                                         *)
(***************************************************************************)

MaxRuns == 3

FetchLimit == 100

Bot == "bot"

\* the runs a history is made of: <<author, number of messages>>
RunShapes == (GuildUsers \cup {Bot}) \X {1, FetchLimit}

RECURSIVE IdsBefore(_)
\* number of messages in the first k runs of the history
IdsBefore(k) == IF k = 0 THEN 0 ELSE IdsBefore(k - 1) + channel[k][2]

\* channel.messages.fetch({before, limit: 100}): the ids of up to 100 messages,
\* the newest ones older than `before` (the newest ones when it is undefined),
\* as a range <<lo, hi>>; empty when hi < lo
FetchWindow(before) ==
    LET hi == IF before = Null THEN IdsBefore(Len(channel)) ELSE before[1] - 1
    IN  <<Max(1, hi - FetchLimit + 1), hi>>

\* lines 90-92: the fetched messages whose author is no bot and no system user
KeepAuthors(window) ==
    { [user |-> channel[k][1],
       lo   |-> Max(IdsBefore(k - 1) + 1, window[1]),
       hi   |-> Min(IdsBefore(k), window[2])] :
        k \in { j \in 1..Len(channel) :
                   /\ channel[j][1] # Bot
                   /\ IdsBefore(j - 1) + 1 <= window[2]
                   /\ IdsBefore(j) >= window[1] } }

\* messages.last()?.id: the collection is ordered newest first, its last
\* message is the oldest; undefined for an empty collection
LastId(fetched) ==
    IF fetched = {} THEN Null
    ELSE Some((CHOOSE f \in fetched : \A g \in fetched : f.lo <= g.lo).lo)

\* lines 51-57: findOne ordered by time ASC, the oldest stored message of the key
OldestStored(userId) ==
    LET rows == KeyMessages(userId)
    IN  IF rows = {} THEN Null
        ELSE Some((CHOOSE b \in rows : \A o \in rows : b.lo <= o.lo).lo)

\* create table messages, message_id primary key: a stored row has the id
AlreadyStored(fetched) ==
    \E f \in fetched, b \in messages : f.lo <= b.hi /\ b.lo <= f.hi

\* lines 101-108: the rows built from the fetched messages
RowsOf(fetched) ==
    { [user |-> f.user, lo |-> f.lo, hi |-> f.hi, content |-> <<"h", "i">>,
       epoch |-> nextId] : f \in fetched }

\* messages are posted in the channel
Post(shape) ==
    /\ imp.pc \in {"idle", "done", "failed"}
    /\ Len(channel) < MaxRuns
    /\ channel' = Append(channel, shape)
    /\ UNCHANGED <<messages, models, nextId, clock, floor, req, inst, last, calc, imp, cmd>>

\* lines 48-77: the command is invoked; the cursor is the oldest stored message
\* of the key, if any
ImportRun(userId) ==
    /\ imp.pc \in {"idle", "done", "failed"}
    /\ channel # <<>>
    /\ imp' = [pc |-> "fetch", userId |-> userId,
               latestMessageId |-> OldestStored(userId),
               count |-> TotalIn(KeyMessages(userId)), fetched |-> {}]
    /\ UNCHANGED <<messages, models, nextId, clock, floor, req, inst, last, calc, channel, cmd>>

\* lines 80-92: fetch; an empty result ends the loop
ImportFetch ==
    /\ imp.pc = "fetch"
    /\ LET window == FetchWindow(imp.latestMessageId)
       IN  IF window[2] < window[1]
           THEN imp' = [imp EXCEPT !.pc = "done"]
           ELSE imp' = [imp EXCEPT !.pc = "bulkCreate", !.fetched = KeepAuthors(window)]
    /\ UNCHANGED <<messages, models, nextId, clock, floor, req, inst, last, calc, channel, cmd>>

\* lines 100-112: the insert, which throws when an id is stored already; then
\* the count and the cursor
ImportBulkCreate ==
    /\ imp.pc = "bulkCreate"
    /\ IF AlreadyStored(imp.fetched)
       THEN /\ imp' = [imp EXCEPT !.pc = "failed"]
            /\ UNCHANGED messages
       ELSE /\ messages' = messages \cup RowsOf(imp.fetched)
            /\ imp' = [imp EXCEPT !.pc = "fetch",
                                  !.count = @ + TotalIn(imp.fetched),
                                  !.latestMessageId = LastId(imp.fetched),
                                  !.fetched = {}]
    /\ UNCHANGED <<models, nextId, clock, floor, req, inst, last, calc, channel, cmd>>

NextImport ==
    \/ \E shape \in RunShapes : Post(shape)
    \/ \E userId \in GuildUsers \cup {NoUser} : ImportRun(userId)
    \/ ImportFetch
    \/ ImportBulkCreate

\* the loop goes on whenever its pending request is answered
SpecImport ==
    Init /\ [][NextImport]_vars /\ WF_vars(ImportFetch) /\ WF_vars(ImportBulkCreate)

(*********************** the impersonate command ***************************)
(* The run of the impersonate command (src/unnamed/part_005) and           *)
(* generateTextFromDiscordMessages, one action per stretch between awaits. *)
(* The options of an interaction are a function from the names of the      *)
(* options given to their values.  cmd.calls holds the Discord calls made: *)
(* followUp, fetchWebhooks, createWebhook, send.                           *)
(***************************************************************************)

MaxCommandBatches == 2

\* the channels an option can name: a text channel, a voice channel, none
ChannelKinds == {"text", "voice", "missing"}

\* the options of an invocation: user and channel are required, prompt is not
CommandOptions ==
    { [user |-> u, channel |-> c] : u \in Users, c \in ChannelKinds }
    \cup { [user |-> u, channel |-> c, prompt |-> <<"h", "i">>] :
               u \in Users, c \in ChannelKinds }

\* interaction.options.get(name)?.value: undefined for an option not given
OptionValue(options, name) ==
    IF name \in DOMAIN options THEN Some(options[name]) ELSE Null

\* (mutant) every result goes on to the webhook
AlwaysPost(result) == "webhooks"

\* DiscordTextGenerator.ts lines 28-39: a falsy result is answered with the
\* follow-up and the function returns; a throw of predictText leaves the function
AfterPredictText(result) ==
    IF result = "text" THEN "webhooks"
    ELSE IF result = "null" THEN "done"
    ELSE "threw"

\* the command is invoked
Invoke(options) ==
    /\ cmd.pc \in {"idle", "done", "threw"}
    /\ req[1].pc = "idle"
    /\ cmd' = [NoCommand EXCEPT !.pc = "run", !.options = Some(options)]
    /\ UNCHANGED <<messages, models, nextId, clock, floor, req, inst, last, calc, channel, imp>>

\* part_005 lines 88-121: the channel is fetched and checked; the seed is read
\* from the option named 'query'
Run ==
    /\ cmd.pc = "run"
    /\ IF cmd.options[1]["channel"] # "text"
       THEN cmd' = [cmd EXCEPT !.pc = "done", !.calls = @ \cup {"followUp"}]
       ELSE cmd' = [cmd EXCEPT !.pc = "call",
                               !.query = OptionValue(cmd.options[1], "query")]
    /\ UNCHANGED <<messages, models, nextId, clock, floor, req, inst, last, calc, channel, imp>>

\* DiscordTextGenerator.ts line 28: predictText(options) is entered
CallPredictText ==
    /\ cmd.pc = "call"
    /\ req[1].pc = "idle"
    /\ Start(1, cmd.options[1]["user"], cmd.query)

\* predictText runs
RunPredictText ==
    /\ cmd.pc = "call"
    /\ Step(1)

\* lines 28-39: predictText has returned or thrown
Returned ==
    /\ cmd.pc = "call"
    /\ req[1].pc = "done"
    /\ LET result == req[1].result
           pc     == AfterPredictText(result)
       IN  cmd' = [cmd EXCEPT !.pc = pc, !.result = result,
                              !.calls = IF pc = "done" THEN @ \cup {"followUp"} ELSE @]
    /\ req' = [req EXCEPT ![1] = Idle]
    /\ UNCHANGED <<messages, models, nextId, clock, floor, inst, last, calc, channel, imp>>

\* lines 45-66: the webhook is found, or created, or the attempt throws and is
\* answered with a follow-up
Webhooks ==
    /\ cmd.pc = "webhooks"
    /\ \/ cmd' = [cmd EXCEPT !.pc = "member", !.calls = @ \cup {"fetchWebhooks"}]
       \/ cmd' = [cmd EXCEPT !.pc = "member",
                              !.calls = @ \cup {"fetchWebhooks", "createWebhook"}]
       \/ cmd' = [cmd EXCEPT !.pc = "done",
                              !.calls = @ \cup {"fetchWebhooks", "followUp"}]
    /\ UNCHANGED <<messages, models, nextId, clock, floor, req, inst, last, calc, channel, imp>>

\* lines 70-76: the member is fetched, or the fetch throws
Member ==
    /\ cmd.pc = "member"
    /\ \/ cmd' = [cmd EXCEPT !.pc = "send"]
       \/ cmd' = [cmd EXCEPT !.pc = "threw"]
    /\ UNCHANGED <<messages, models, nextId, clock, floor, req, inst, last, calc, channel, imp>>

\* lines 78-92: the message is sent; an error of the send is swallowed
Send ==
    /\ cmd.pc = "send"
    /\ cmd' = [cmd EXCEPT !.pc = "done", !.calls = @ \cup {"send"}]
    /\ UNCHANGED <<messages, models, nextId, clock, floor, req, inst, last, calc, channel, imp>>

NextCommand ==
    \/ \E options \in CommandOptions : Invoke(options)
    \/ Run
    \/ CallPredictText
    \/ RunPredictText
    \/ Returned
    \/ Webhooks
    \/ Member
    \/ Send
    \/ \E u \in Users, shape \in ConcShapes : IngestNew(u, shape, MaxCommandBatches)

SpecCommand == Init /\ [][NextCommand]_vars

(*************************** the decoding loop *****************************)
(* predictRemainder of part_002 / part_003, one action per turn of its     *)
(* while loop.  A text is its sequence of characters; every word is one    *)
(* character long.  calc.out holds result.slice(-text.length), the part of *)
(* result the loop condition reads.                                        *)
(***************************************************************************)

MaxSeedWords == 2

RECURSIVE JoinWords(_)
JoinWords(words) ==
    IF Len(words) = 0 THEN <<>>
    ELSE IF Len(words) = 1 THEN <<words[1]>>
    ELSE <<words[1], " ">> \o JoinWords(Tail(words))

\* the seed texts: empty, words joined by spaces, and the same ending in a space
SeedTexts ==
    LET lists == UNION { [1..n -> Tokens] : n \in 1..MaxSeedWords }
    IN  {<<>>} \cup { JoinWords(l) : l \in lists }
               \cup { JoinWords(l) \o <<" ">> : l \in lists }

\* result.slice(-n): the last n characters, all of them when n is 0 or exceeds
\* the length
SliceLast(result, n) ==
    IF n = 0 \/ Len(result) <= n THEN result
    ELSE SubSeq(result, Len(result) - n + 1, Len(result))

\* the loop condition of line 364: result.slice(-text.length) !== text
KeepsDecoding(text, result) == SliceLast(result, Len(text)) # text

\* predictRemainder(text) is entered: result = ''
DecodeStart(text) ==
    /\ calc.fn \in {"none", "decoded"}
    /\ calc' = [fn |-> "decode", arg |-> text, out |-> <<>>]
    /\ UNCHANGED <<messages, models, nextId, clock, floor, req, inst, last, channel, imp, cmd>>

\* lines 365-369: result += indexToWord[index] + ' ', for whichever word the
\* model's arg-max picks
DecodeStep ==
    /\ calc.fn = "decode"
    /\ KeepsDecoding(calc.arg, calc.out)
    /\ \E word \in Tokens :
           calc' = [calc EXCEPT !.out = SliceLast(calc.out \o <<word, " ">>, Len(calc.arg))]
    /\ UNCHANGED <<messages, models, nextId, clock, floor, req, inst, last, channel, imp, cmd>>

\* lines 372-375: the loop has ended and the function returns
DecodeReturn ==
    /\ calc.fn = "decode"
    /\ ~ KeepsDecoding(calc.arg, calc.out)
    /\ calc' = [calc EXCEPT !.fn = "decoded"]
    /\ UNCHANGED <<messages, models, nextId, clock, floor, req, inst, last, channel, imp, cmd>>

NextDecode ==
    \/ \E text \in SeedTexts : DecodeStart(text)
    \/ DecodeStep
    \/ DecodeReturn

\* the loop is synchronous code: a call that can take its next turn takes it
SpecDecode ==
    Init /\ [][NextDecode]_vars /\ WF_vars(DecodeStep) /\ WF_vars(DecodeReturn)

(****************************** properties *********************************)

KeyModelsNext(u) == { m \in models' : MatchUser(u, m.user_id) }

\* call p takes a step of its own (a crash is not one)
Moves(p) == req'[p] # req[p] /\ req'[p].pc # "idle"

\* call p takes the step that settles whether its loaded row is used
Decides(p) ==
    /\ req[p].pc \in {"findLastKnown", "count"}
    /\ req'[p].pc \in {"import", "fetch"}

\* messages of key u stored after row m was written
RECURSIVE IngestedIn(_, _)
IngestedIn(B, m) ==
    IF B = {} THEN 0
    ELSE LET b == CHOOSE x \in B : TRUE
         IN  (IF b.epoch > m.id THEN BatchSize(b) ELSE 0) + IngestedIn(B \ {b}, m)

IngestedSince(u, m) == IngestedIn(KeyMessages(u), m)

\* C1: a row of the models table is removed only when a newer row of the same
\* key is already stored, so a key that has a row never falls back to none,
\* whatever fails or crashes.
C1_DestroyAfterCreate ==
    [][ /\ \A m \in models \ models' :
             \E n \in models' : n.user_id = m.user_id /\ n.id > m.id
        /\ \A u \in Users : KeyModels(u) # {} => KeyModelsNext(u) # {} ]_vars

\* C1 witness: a call has destroyed the row it replaced.
C1_Witness ==
    \E p \in Procs :
        /\ req[p].pc = "predict" /\ "destroy" \in req[p].ops
        /\ req[p].oldModel # Null /\ req[p].oldModel[1] \notin models
        /\ req[p].created[1] \in models

InRetrain(p) == req[p].pc \in {"fetch", "train", "export", "create", "destroy"}

\* C2: at most one retrain is in flight per key.
C2_OneRetrainPerKey ==
    \A p, q \in Procs :
        (p # q /\ InRetrain(p) /\ InRetrain(q)) => req[p].userId # req[q].userId

C4_StaleExactly ==
    [][ \A p \in Procs : Decides(p) =>
          LET r  == req[p]
              lk == req'[p].lastKnownMessageId
              n  == IF r.dbModel = Null THEN 0
                    ELSE CountIn(KeyMessages(r.userId), r.dbModel[1].update_time)
              stale == r.dbModel # Null /\ r.dbModel[1].last_message_id # lk /\ n > 5000
          IN  /\ (req'[p].oldModel # Null) <=> stale
              /\ stale => (req'[p].pc = "fetch" /\ req'[p].oldModel = r.dbModel)
              /\ (r.dbModel # Null /\ ~ stale) => req'[p].pc = "import" ]_vars

\* C4 witness: a call has set its row aside at exactly 5001 newer messages.
C4_Witness ==
    \E p \in Procs :
        /\ req[p].pc = "fetch" /\ req[p].oldModel # Null
        /\ CountNewerMessages(req[p].userId, req[p].oldModel[1].update_time) = 5001

\* C5: a call that begins after a retrain, with nothing stored while it runs,
\* uses the row of that retrain while at most 4000 messages of the key were
\* stored since the row was written, and retrains once 5001 were.
C5_StaleAfterIngest ==
    [][ \A p \in Procs :
          ( /\ Decides(p) /\ req[p].dbModel # Null
            /\ TotalIn(KeyMessages(req[p].userId)) = req[p].seen ) =>
          LET n == IngestedSince(req[p].userId, req[p].dbModel[1])
          IN  /\ n <= 4000 => req'[p].pc = "import"
              /\ n >= 5001 => req'[p].pc = "fetch" ]_vars

\* no stored message of key u passes the corpus filters
NoUsableMessage(u) ==
    \A b \in KeyMessages(u) :
        \/ b.content = <<>>
        \/ b.content[1] \in commandPrefixes /\ Len(b.content) > 2

\* C6: with no stored message, or none that passes the filters, the call
\* returns null; a call that returned null trained nothing, wrote no row and
\* deleted none.
C6_NoData ==
    [][ \A p \in Procs :
          /\ (Moves(p) /\ req[p].pc = "findLastKnown" /\ KeyMessages(req[p].userId) = {})
                => (req'[p].pc = "done" /\ req'[p].result = "null" /\ models' = models)
          /\ (Moves(p) /\ req[p].pc = "fetch" /\ NoUsableMessage(req[p].userId))
                => (req'[p].pc = "done" /\ req'[p].result = "null" /\ models' = models)
          /\ (req'[p].pc = "done" /\ req'[p].result = "null")
                => req'[p].ops \subseteq {"fetch"} ]_vars

\* C6 witness: a call found messages but none usable and returned null.
C6_Witness ==
    \E p \in Procs :
        /\ req[p].pc = "done" /\ req[p].result = "null" /\ "fetch" \in req[p].ops
        /\ KeyMessages(req[p].userId) # {}

\* C7: a call whose row exists and is not outdated imports it into a fresh
\* instance and does nothing else before generating: no fetch, no training, no
\* create, no destroy, and the models table is as it was.
C7_CacheHit ==
    [][ \A p \in Procs :
          /\ (Decides(p) /\ req[p].dbModel # Null /\ req'[p].oldModel = Null)
                => (req'[p].pc = "import" /\ req'[p].rnn = Some(NewRnn))
          /\ (Moves(p) /\ req[p].pc = "import")
                => /\ models' = models
                   /\ req'[p].pc = "predict" /\ req'[p].ops = {"import"}
                   /\ Usable(req'[p].rnn[1])
                   /\ req'[p].rnn[1].tokenizedData =
                          Some(JsonParse(req[p].dbModel[1].tokenized_data))
          /\ (Moves(p) /\ req[p].pc = "predict" /\ "import" \in req[p].ops)
                => (models' = models /\ req'[p].ops = {"import"}) ]_vars

\* C7 witness: a call has finished on the cache-hit path.
C7_Witness ==
    \E p \in Procs :
        /\ req[p].pc = "done" /\ req[p].result = "text" /\ req[p].ops = {"import"}

\* C8: a finished call has disposed the instance it created.
C8_DisposedAtEnd ==
    \A p \in Procs :
        (req[p].pc = "done" /\ req[p].rnn # Null /\ req[p].rnn[1].model # Null)
            => req[p].rnn[1].model[1].refCount = 0

\* C9: once dispose() has released the model of an instance, every further
\* call on it fails and it is never usable again.
C9_DisposedIsTerminal ==
    last.disposed => (~ Usable(inst) /\ (last.op # "dispose" => ~ last.ok))

\* C10: dispose() never throws, in any state and however often it is called.
C10_DisposeIsSafe == last.op = "dispose" => last.ok

\* the last step was a call of one of the operations that need a model
NeedsModel(op) == op \in {"export", "predictRemainder", "generateRandom"}

C12_RoundTrip ==
    (last.op = "importStored" /\ last.ok) =>
        inst.tokenizedData = Some(last.artifact[1].tokenizedData)

\* the ranked words kept are the most frequent ones, in descending frequency
RankedTopOf(words, kept) ==
    /\ \A i, j \in 1..Len(kept) :
           i < j => WordCount(words, kept[i]) >= WordCount(words, kept[j])
    /\ \A i \in 1..Len(kept) : \A w \in Distinct(words) :
           w \notin { kept[k] : k \in 1..Len(kept) }
               => WordCount(words, kept[i]) >= WordCount(words, w)

\* C13: vocabulary construction with cap V over a sample keeps the
\* min(V, distinct words) most frequent words ranked by descending frequency,
\* gives them the distinct indices 0..|vocabulary|-1, and builds indexToWord as
\* the inverse of wordToIndex.
C13_Vocabulary ==
    calc.fn \in {"buildVocabulary", "trainVocabulary"} =>
        LET words == calc.arg.words
            n     == Min(calc.arg.cap, Cardinality(Distinct(words)))
        IN  /\ calc.out # Null
            /\ LET td == calc.out[1]
                IN  /\ Len(td.vocabulary) = n
                    /\ RankedTopOf(words, td.vocabulary)
                    /\ DOMAIN td.indexToWord = 0..(n - 1)
                    /\ DOMAIN td.wordToIndex = { td.vocabulary[i] : i \in 1..n }
                    /\ \A w \in DOMAIN td.wordToIndex :
                           td.indexToWord[td.wordToIndex[w]] = w

\* C14: the index drawn at a decoding step is within [0, |vocabulary|), for
\* every context length, so the index-to-token table has an entry for it.
C14_SampleInRange ==
    calc.fn \in {"sampleFromPrediction", "sampleFlattened"} =>
        calc.out \in 0..(calc.arg.size - 1)

\* number of generated words in a returned window
GeneratedIn(words) == Cardinality({ i \in 1..Len(words) : words[i] = Sampled })

\* C15: for bounds predictLengthMin <= predictLengthMax the text returned by
\* predictRemainder, and by generateRandom, holds at least predictLengthMin and
\* at most predictLengthMax generated words.
C15_LengthBounds ==
    calc.fn \in {"wordPredictRemainder", "wordGenerateRandom"} =>
        /\ GeneratedIn(calc.out.words) >= calc.arg.min
        /\ GeneratedIn(calc.out.words) <= calc.arg.max

\* C16: every call of predictRemainder returns: the decoding loop ends for
\* every seed text, whatever words the model produces.
C16_DecodingTerminates == (calc.fn = "decode") ~> (calc.fn = "decoded")

\* C17: the last_message_id a call writes with its new row is at least the id
\* of every message in the corpus it trained on.
C17_WatermarkCoversCorpus ==
    \A p \in Procs :
        req[p].created # Null =>
            \A b \in req[p].corpus : b.hi <= req[p].created[1].last_message_id

\* C18: a content is in the retraining corpus exactly when it is not empty and
\* does not both start with one of ! ? - + @ # $ % & and have more than 2
\* characters.
C18_CorpusFilter ==
    calc.fn = "inCorpus" =>
        LET x == calc.arg
            prefixed == Len(x) > 0 /\
                        x[1] \in {"!", "?", "-", "+", "@", "#", "$", "%", "&"}
        IN  calc.out <=> (Len(x) > 0 /\ ~ (prefixed /\ Len(x) > 2))

\* C18 witness: a content of two characters that starts with a prefix symbol
\* has been kept.
C18_Witness ==
    /\ calc.fn = "inCorpus" /\ calc.out
    /\ Len(calc.arg) = 2 /\ calc.arg[1] = "&"

\* out is str cut or filled up to the window
PaddedTo(str, window, padWord, out) ==
    /\ Len(out) = window
    /\ \A i \in 1..window :
           out[i] = IF i <= Len(str) THEN str[i] ELSE padWord

\* C19: pad(s) has exactly the window length: a shorter s is followed by pad
\* words only, a longer one is cut to its first window words.
C19_PadWindow ==
    calc.fn \in {"pad", "padByVocabulary"} =>
        PaddedTo(calc.arg.str, calc.arg.window, calc.arg.padWord, calc.out)

\* C20: a seed of more words than the window is encoded as its last
\* window-length words; they are the context the decoding starts from.
C20_SeedSuffix ==
    (calc.fn = "strToXs" /\ Len(calc.arg.seed) > calc.arg.td.padSize) =>
        LET seed   == calc.arg.seed
            window == calc.arg.td.padSize
        IN  calc.out = [i \in 1..window |->
                           OneHotRow(calc.arg.td, seed[Len(seed) - window + i])]

\* C21: train() on messages of which none is left after the word-count filter
\* throws; on an instance without a model the model stays null and a following
\* export() throws.
C21_EmptyCorpus ==
    [][ ( /\ last'.op = "train" /\ inst.model = Null
          /\ TotalIn(WithinWordCount(last'.arg[1])) = 0 ) =>
            /\ ~ last'.ok
            /\ inst'.model = Null
            /\ \A o \in RnnExport(inst') : ~ o.ok ]_vars

\* C21 witness: train() has failed on messages that are all over the word count.
C21_Witness ==
    /\ last.op = "train" /\ ~ last.ok /\ inst.model = Null
    /\ last.arg[1] # {} /\ WithinWordCount(last.arg[1]) = {}

\* C22: a call that fails on its seed text has done no model work: when the
\* generation from a seed throws, the call has fetched no corpus, trained or
\* imported nothing and created no row.
C22_SeedCheckedFirst ==
    [][ \A p \in Procs :
          ( /\ Moves(p) /\ req[p].pc = "predict" /\ req[p].input # Null
            /\ req'[p].pc = "done" /\ req'[p].result = "error" )
              => req[p].ops \cap {"fetch", "train", "import", "create"} = {} ]_vars

\* the words strToXs encodes: the padded words of its argument
EncodedWords ==
    IF calc.fn = "strToXs" THEN Pad(calc.arg.seed, calc.arg.td.padSize)
    ELSE PadByVocabulary(calc.arg.seed, calc.arg.td.vocabulary)

\* C23: strToXs encodes a word of the vocabulary as a row with exactly one 1, at
\* the word's index, and no word outside the vocabulary (a pad word, an unknown
\* word) gets the row of a word of the vocabulary.
C23_OneHot ==
    calc.fn \in {"strToXs", "strToXsByVocabulary"} =>
        LET td    == calc.arg.td
            words == EncodedWords
            known == DOMAIN td.wordToIndex
        IN  /\ Len(calc.out) = Len(words)
            /\ \A i \in 1..Len(words) :
                   words[i] \in known => calc.out[i] = {td.wordToIndex[words[i]]}
            /\ \A i, j \in 1..Len(words) :
                   (words[i] \in known /\ words[j] \notin known)
                       => calc.out[i] # calc.out[j]

\* C24: buildVocabulary gives the distinct characters distinct indices in
\* 0..vocabulary.size-1, so the indices preprocessInput produces for characters
\* of the text are below vocabulary.size and every row of oneHotEncode is
\* vocabulary.size wide.
C24_DenseIndices ==
    calc.fn = "oneHotEncode" =>
        LET td   == calc.out.td
            size == Cardinality(td.vocabulary)
        IN  /\ \A c \in td.vocabulary : td.charToIndex[c] \in 0..(size - 1)
            /\ \A c, d \in td.vocabulary :
                   c # d => td.charToIndex[c] # td.charToIndex[d]
            /\ \A i \in 1..Len(calc.out.sequence) :
                   calc.out.sequence[i] # Null => calc.out.sequence[i][1] < size
            /\ \A i \in 1..Len(calc.out.rows) : Len(calc.out.rows[i]) = size

\* C25: for a training message the rows of strToYs are the rows of strToXs moved
\* one place to the left: both have padSize rows and row i of ys is row i + 1
\* of xs, for every i but the last.
C25_TargetsShifted ==
    calc.fn = "encodeMessage" =>
        LET W == calc.arg.td.padSize
        IN  /\ Len(calc.out.xs) = W
            /\ Len(calc.out.ys) = W
            /\ \A i \in 1..(W - 1) : calc.out.ys[i] = calc.out.xs[i + 1]

\* C25 witness: a message of several words has been encoded in a window of
\* several rows, and its second word, a word of the vocabulary with a row of
\* its own, is the first target.
C25_Witness ==
    /\ calc.fn = "encodeMessage"
    /\ Len(calc.arg.str) >= 2 /\ calc.arg.td.padSize >= 2
    /\ calc.out.ys[1] = OneHotRow(calc.arg.td, calc.arg.str[2])
    /\ calc.out.ys[1] # {} /\ calc.out.xs[1] # calc.out.ys[1]

\* C26: a call for one key (a user of the guild, or the guild as a whole when
\* userId is undefined) loads, replaces and destroys rows of its own key only:
\* the row it has looked up carries its userId, and every row its steps remove
\* from the models table does.
C26_OwnKeyOnly ==
    [][ \A p \in Procs :
          /\ req'[p].dbModel # Null => req'[p].dbModel[1].user_id = req'[p].userId
          /\ req'[p].oldModel # Null => req'[p].oldModel[1].user_id = req'[p].userId
          /\ Moves(p) => \A m \in models \ models' : m.user_id = req[p].userId ]_vars

\* C27: the import command never passes to bulkCreate a message whose id is
\* stored already, in whatever order imports are run.
C27_NoDuplicateInsert ==
    imp.pc = "bulkCreate" => ~ AlreadyStored(imp.fetched)

\* C28: the fetch loop of an import ends, whatever the history: a run that is
\* fetching comes to its end.
C28_ImportTerminates ==
    (imp.pc = "fetch") ~> (imp.pc \in {"done", "failed"})

\* C29: the prompt given to the impersonate command is the seed predictText
\* generates from: when the call comes to generate, its input is the prompt if
\* one was given (predictRemainder) and null if none was (generateRandom).
C29_PromptIsSeed ==
    [][ (cmd.pc = "call" /\ Moves(1) /\ req[1].pc = "predict") =>
            req[1].input = InputOf(OptionValue(cmd.options[1], "prompt")) ]_vars

\* C30: the webhook is fetched, created or sent to only when predictText has
\* returned text; when it has returned null the caller gets the error
\* follow-up and nothing else.
C30_PostOnlyText ==
    /\ cmd.calls \cap {"fetchWebhooks", "createWebhook", "send"} # {}
           => cmd.result = "text"
    /\ (cmd.pc = "done" /\ cmd.result = "null") => cmd.calls = {"followUp"}

\* C30 witness: predictText has returned null to the command, which has ended.
C30_Witness ==
    /\ cmd.pc = "done" /\ cmd.result = "null"
    /\ cmd.options[1]["channel"] = "text"
    /\ cmd.calls = {"followUp"}

====
